---- MODULE Spec2Model ----
(***************************************************************************)
(* DocDecorator: helpers over a python-docx document tree.                 *)
(*                                                                         *)
(* The document is a heap of elements addressed by integer identities     *)
(* (the proxy objects of python-docx compare by the XML element they wrap).*)
(* A text is a sequence of one-character strings.  Tables hold no merged   *)
(* cells.  An `assert` that fails raises AssertionError.                   *)
(***************************************************************************)
EXTENDS Integers, Sequences, FiniteSets, TLC

VARIABLES doc,      \* the document tree handed to the facades
          con,      \* DocContent: the document it works on
          dec,      \* DocDecorate: its cached runs, paragraphs, tables, cells
          loc,      \* a long-lived DOCXElement: its cached paragraphs and tables
          last,     \* the last call: operation, arguments, error, return value
          steps     \* number of calls made so far

vars == <<doc, con, dec, loc, last, steps>>

----------------------------------------------------------------------------
(* Bounds of the model *)

MaxSteps == 3

----------------------------------------------------------------------------
(* Sequences and texts *)

RECURSIVE Flatten(_)
Flatten(ss) == IF ss = <<>> THEN <<>> ELSE Head(ss) \o Flatten(Tail(ss))

Range(s) == {s[i] : i \in 1..Len(s)}

MapSeq(s, F(_)) == [i \in 1..Len(s) |-> F(s[i])]

InsertAt(s, i, x) == SubSeq(s, 1, i - 1) \o <<x>> \o SubSeq(s, i, Len(s))

IndexOf(s, x) == IF \E i \in 1..Len(s) : s[i] = x
                 THEN CHOOSE i \in 1..Len(s) : s[i] = x /\ \A j \in 1..(i - 1) : s[j] # x
                 ELSE 0

RECURSIVE JoinWith(_, _)
JoinWith(ts, sep) ==
    IF ts = <<>> THEN <<>>
    ELSE IF Len(ts) = 1 THEN ts[1]
    ELSE ts[1] \o sep \o JoinWith(Tail(ts), sep)

(* An optional text: None, or a str *)
NoneText == [none |-> TRUE, s |-> <<>>]

Some(s) == [none |-> FALSE, s |-> s]

(* Python truthiness of an optional text: None and "" are falsy *)
Truthy(o) == ~o.none /\ o.s # <<>>

----------------------------------------------------------------------------
(* The document tree (python-docx), as the repository's calls use it *)

EmptyDocument ==
    [body |-> <<>>, runText |-> <<>>, paraRuns |-> <<>>, cellParas |-> <<>>,
     tblGrid |-> <<>>, tblRows |-> <<>>, runPics |-> <<>>, runFont |-> <<>>,
     paraAlign |-> <<>>, nextId |-> 1]

(* doc.paragraphs: the top-level paragraphs, in document order *)
Document_paragraphs(d) ==
    MapSeq(SelectSeq(d.body, LAMBDA b : b.kind = "p"), LAMBDA b : b.id)

(* doc.tables: the top-level tables, in document order *)
Document_tables(d) ==
    MapSeq(SelectSeq(d.body, LAMBDA b : b.kind = "tbl"), LAMBDA b : b.id)

(* paragraph.runs *)
Paragraph_runs(d, p) == d.paraRuns[p]

(* paragraph.text: the texts of its runs, concatenated *)
Paragraph_text(d, p) == Flatten(MapSeq(d.paraRuns[p], LAMBDA r : d.runText[r]))

(* cell.paragraphs *)
Cell_paragraphs(d, c) == d.cellParas[c]

(* cell.text: the texts of its paragraphs joined by a newline *)
Cell_text(d, c) ==
    JoinWith(MapSeq(d.cellParas[c], LAMBDA p : Paragraph_text(d, p)), <<"\n">>)

(* len(table.rows), len(table.columns) *)
Table_row_count(d, t) == Len(d.tblRows[t])

Table_column_count(d, t) == d.tblGrid[t]

(* table._cells: every cell of the table, row by row *)
Table_cells(d, t) == Flatten(d.tblRows[t])

(* table.column_cells(j): every column_count-th cell of table._cells from j
   (j from 0) *)
Table_column_cells(d, t, j) ==
    LET n == Table_column_count(d, t)
        cells == Table_cells(d, t)
        idxs == {k \in 1..Len(cells) : (k - 1) % n = j}
    IN  [i \in 1..Cardinality(idxs) |-> cells[j + 1 + (i - 1) * n]]

(* table.row_cells(i): a slice of table._cells, column_count wide (i from 0) *)
Table_row_cells(d, t, i) ==
    LET n == Table_column_count(d, t)
        cells == Table_cells(d, t)
    IN  SubSeq(cells, i * n + 1, IF i * n + n <= Len(cells) THEN i * n + n ELSE Len(cells))

(* A new paragraph on the heap, with one run when the text is truthy *)
NewParagraph(d, text) ==
    LET p == d.nextId
    IN  IF Truthy(text)
        THEN [d EXCEPT !.paraRuns = @ @@ (p :> <<p + 1>>),
                       !.runText = @ @@ ((p + 1) :> text.s),
                       !.nextId = @ + 2]
        ELSE [d EXCEPT !.paraRuns = @ @@ (p :> <<>>), !.nextId = @ + 1]

(* doc.add_paragraph(text): the new paragraph (d.nextId) ends the body *)
Document_add_paragraph(d, text) ==
    [NewParagraph(d, text) EXCEPT !.body = Append(@, [kind |-> "p", id |-> d.nextId])]

(* The new paragraph put right after p instead of before it *)
Paragraph_insert_paragraph_after(d, p, text) ==
    LET new == d.nextId
        at == IndexOf(d.body, [kind |-> "p", id |-> p])
        n == NewParagraph(d, text)
    IN  IF at # 0
        THEN [n EXCEPT !.body = InsertAt(@, at + 1, [kind |-> "p", id |-> new])]
        ELSE [n EXCEPT !.cellParas =
                 [c \in DOMAIN @ |->
                     IF IndexOf(@[c], p) # 0 THEN InsertAt(@[c], IndexOf(@[c], p) + 1, new)
                     ELSE @[c]]]

(* paragraph.insert_paragraph_before(text): the new paragraph (d.nextId) is put
   right before p in p's container, the body or a cell *)
Paragraph_insert_paragraph_before(d, p, text) ==
    LET new == d.nextId
        at == IndexOf(d.body, [kind |-> "p", id |-> p])
        n == NewParagraph(d, text)
    IN  IF at # 0
        THEN [n EXCEPT !.body = InsertAt(@, at, [kind |-> "p", id |-> new])]
        ELSE [n EXCEPT !.cellParas =
                 [c \in DOMAIN @ |->
                     IF IndexOf(@[c], p) # 0 THEN InsertAt(@[c], IndexOf(@[c], p), new)
                     ELSE @[c]]]

(* paragraph.add_run(text): the new run (d.nextId) ends the paragraph; a falsy
   text leaves it empty *)
Paragraph_add_run(d, p, text) ==
    [d EXCEPT !.paraRuns[p] = Append(@, d.nextId),
              !.runText = @ @@ (d.nextId :> (IF Truthy(text) THEN text.s ELSE <<>>)),
              !.nextId = @ + 1]

(* run.text = text: the run's content, inline pictures included, is replaced
   by the text; its properties stay *)
Run_set_text(d, r, text) ==
    [d EXCEPT !.runText[r] = text,
              !.runPics = IF r \in DOMAIN @ THEN [@ EXCEPT ![r] = <<>>] ELSE @]

(* The inline pictures of a run, in order; runPics lists only the runs that
   were given one *)
Run_pictures(d, r) == IF r \in DOMAIN d.runPics THEN d.runPics[r] ELSE <<>>

(* The files a picture path can name: images, and files that are no image *)
ImageFiles == {"logo.png", "chart.png"}

OtherFiles == {"notes.txt"}

(* What opening the picture raises, "none" when it is an image *)
Image_open(picture) ==
    IF picture \in ImageFiles THEN "none"
    ELSE IF picture \in OtherFiles THEN "UnrecognizedImageError"
    ELSE "FileNotFoundError"

(* run.add_picture(picture, width, height) of an image that opens: width and
   height in cm, height 0 for None (scaled with the width) *)
Run_add_picture(d, r, picture, width, height) ==
    LET pic == [image |-> picture, width |-> width, height |-> height]
    IN  [d EXCEPT !.runPics = IF r \in DOMAIN @ THEN [@ EXCEPT ![r] = Append(@, pic)]
                              ELSE @ @@ (r :> <<pic>>)]

(* The character formatting of a run: font name (w:ascii and w:hAnsi of
   w:rFonts), the w:eastAsia font of w:rFonts, size in half-points (0 for
   None), colour, bold and italic ("None" where unset); runFont lists only the
   runs that were given formatting *)
NoFont ==
    [name |-> "None", eastAsia |-> "None", size |-> 0, color |-> "None",
     bold |-> "None", italic |-> "None"]

Run_font(d, r) == IF r \in DOMAIN d.runFont THEN d.runFont[r] ELSE NoFont

Run_set_font(d, r, f) ==
    [d EXCEPT !.runFont = IF r \in DOMAIN @ THEN [@ EXCEPT ![r] = f] ELSE @ @@ (r :> f)]

(* paragraph.alignment, "None" where unset; paraAlign lists only the
   paragraphs that were given one *)
Paragraph_alignment(d, p) == IF p \in DOMAIN d.paraAlign THEN d.paraAlign[p] ELSE "None"

Paragraph_set_alignment(d, p, alignment) ==
    [d EXCEPT !.paraAlign = IF p \in DOMAIN @ THEN [@ EXCEPT ![p] = alignment]
                            ELSE @ @@ (p :> alignment)]

(* A row of n new cells, each holding one empty paragraph; the cell at column j
   (from 0) is base + 2*j and its paragraph base + 2*j + 1 *)
NewRowCells(base, n) == [j \in 1..n |-> base + 2 * (j - 1)]

NewCellsHeap(d, base, n) ==
    [d EXCEPT !.cellParas = @ @@ [c \in {base + 2 * j : j \in 0..(n - 1)} |-> <<c + 1>>],
              !.paraRuns = @ @@ [p \in {base + 2 * j + 1 : j \in 0..(n - 1)} |-> <<>>]]

NonNeg(n) == IF n > 0 THEN n ELSE 0

(* doc.add_table(rows, cols): the new table (d.nextId) ends the body; range()
   of a negative number is empty *)
Document_add_table(d, rows, cols) ==
    LET t == d.nextId
        R == NonNeg(rows)
        C == NonNeg(cols)
        h == NewCellsHeap(d, t + 1, R * C)
    IN  [h EXCEPT !.body = Append(@, [kind |-> "tbl", id |-> t]),
                  !.tblGrid = @ @@ (t :> C),
                  !.tblRows = @ @@ (t :> [i \in 1..R |-> NewRowCells(t + 1 + 2 * C * (i - 1), C)]),
                  !.nextId = t + 1 + 2 * R * C]

(* table.add_row() that gives the new row a single cell *)
Table_add_row_one_cell(d, t) ==
    LET h == NewCellsHeap(d, d.nextId, 1)
    IN  [h EXCEPT !.tblRows[t] = Append(@, NewRowCells(d.nextId, 1)),
                  !.nextId = @ + 2]

(* table.add_row(): one new cell per grid column *)
Table_add_row(d, t) ==
    LET C == Table_column_count(d, t)
        h == NewCellsHeap(d, d.nextId, C)
    IN  [h EXCEPT !.tblRows[t] = Append(@, NewRowCells(d.nextId, C)),
                  !.nextId = @ + 2 * C]

(* cell.text = text: the cell's content is replaced by one new paragraph
   (d.nextId) holding one new run (d.nextId + 1) *)
Cell_set_text(d, c, text) ==
    [d EXCEPT !.cellParas[c] = <<d.nextId>>,
              !.paraRuns = @ @@ (d.nextId :> <<d.nextId + 1>>),
              !.runText = @ @@ ((d.nextId + 1) :> text),
              !.nextId = @ + 2]

----------------------------------------------------------------------------
(* part.py *)

part_get_paragraphs(d) == Document_paragraphs(d)

part_get_tables(d) == Document_tables(d)

part_get_table_row_length(d, t) == Table_row_count(d, t)

part_get_table_column_length(d, t) == Table_column_count(d, t)

part_get_cells_in_table(d, t) ==
    Flatten([i \in 1..part_get_table_row_length(d, t) |-> Table_row_cells(d, t, i - 1)])

part_get_cells_in_tables(d) ==
    Flatten(MapSeq(part_get_tables(d), LAMBDA t : part_get_cells_in_table(d, t)))

part_get_paragraphs_in_tables(d) ==
    Flatten(MapSeq(part_get_cells_in_tables(d), LAMBDA c : Cell_paragraphs(d, c)))

part_get_all_paragraphs(d) == part_get_paragraphs(d) \o part_get_paragraphs_in_tables(d)

part_get_all_runs(d) ==
    Flatten(MapSeq(part_get_all_paragraphs(d), LAMBDA p : Paragraph_runs(d, p)))

----------------------------------------------------------------------------
(* Python built-ins the code relies on *)

(* list[i]: the position (from 1) that index i selects, 0 when it raises
   IndexError; a negative index counts from the end *)
PyIndex(n, i) ==
    IF 0 <= i /\ i < n THEN i + 1
    ELSE IF -n <= i /\ i < 0 THEN n + i + 1
    ELSE 0

(* key in text *)
str_contains(s, key) ==
    \E i \in 0..(Len(s) - Len(key)) : SubSeq(s, i + 1, i + Len(key)) = key

(* text.replace(old, new, 1): the first occurrence only *)
RECURSIVE str_replace_first(_, _, _)
str_replace_first(s, old, new) ==
    IF old = <<>> THEN new \o s
    ELSE IF Len(s) < Len(old) THEN s
    ELSE IF SubSeq(s, 1, Len(old)) = old
         THEN new \o SubSeq(s, Len(old) + 1, Len(s))
    ELSE <<Head(s)>> \o str_replace_first(Tail(s), old, new)

(* text.replace(old, new): every non-overlapping occurrence, left to right; an
   empty old matches before every character and at the end *)
RECURSIVE str_replace(_, _, _)
str_replace(s, old, new) ==
    IF old = <<>>
    THEN IF s = <<>> THEN new ELSE new \o <<Head(s)>> \o str_replace(Tail(s), old, new)
    ELSE IF Len(s) < Len(old) THEN s
    ELSE IF SubSeq(s, 1, Len(old)) = old
         THEN new \o str_replace(SubSeq(s, Len(old) + 1, Len(s)), old, new)
    ELSE <<Head(s)>> \o str_replace(Tail(s), old, new)

(* A value of a mapping or of a row: a str or an int *)
StrV(s) == [t |-> "str", n |-> 0, s |-> s]

IntV(n) == [t |-> "int", n |-> n, s |-> <<>>]

Digits == <<"0", "1", "2", "3", "4", "5", "6", "7", "8", "9">>

RECURSIVE NatToText(_)
NatToText(n) ==
    IF n < 10 THEN <<Digits[n + 1]>> ELSE NatToText(n \div 10) \o <<Digits[(n % 10) + 1]>>

(* str(value) *)
str(v) ==
    IF v.t = "int"
    THEN IF v.n < 0 THEN <<"-">> \o NatToText(-v.n) ELSE NatToText(v.n)
    ELSE v.s

(* A reference to an element, as an argument or a return value *)
NoneRef == [kind |-> "None", id |-> 0, idx |-> 0]

Ref(kind, id) == [kind |-> kind, id |-> id, idx |-> 0]

IntRef(i) == [kind |-> "int", id |-> 0, idx |-> i]

RowRef(t, i) == [kind |-> "row", id |-> t, idx |-> i]

ColumnRef(t, j) == [kind |-> "column", id |-> t, idx |-> j]

(* A returned list of objects *)
ListRef(items) == [kind |-> "list", id |-> 0, idx |-> 0, items |-> items]

Result(d, c, err, ret) == [doc |-> d, dec |-> c, err |-> err, ret |-> ret]

(* part.py: a row or a column by index *)

PartResult(err, ret) == [err |-> err, ret |-> ret]

(* assert 0 < row_index < get_table_row_length(table); table.rows[row_index] *)
part_get_row_in_table(d, table, row_index) ==
    IF ~(0 < row_index /\ row_index < part_get_table_row_length(d, table))
    THEN PartResult("AssertionError", NoneRef)
    ELSE PartResult("none", RowRef(table, row_index))

(* assert 0 < column_index < get_table_column_length(table);
   table.columns[column_index] *)
part_get_column_in_table(d, table, column_index) ==
    IF ~(0 < column_index /\ column_index < part_get_table_column_length(d, table))
    THEN PartResult("AssertionError", NoneRef)
    ELSE PartResult("none", ColumnRef(table, column_index))

----------------------------------------------------------------------------
(* doc_decorate.py: DocDecorate *)

DocDecorate_init(d) ==
    [runs |-> part_get_all_runs(d),
     paragraphs |-> part_get_paragraphs(d),
     tables |-> part_get_tables(d),
     cells |-> part_get_cells_in_tables(d)]

(* The inner loop of replace: every key of the mapping, in its order, on one run *)
RECURSIVE replace_keys(_, _, _)
replace_keys(d, run, context) ==
    IF context = <<>> THEN d
    ELSE LET key == Head(context).key
             val == Head(context).val
         IN  replace_keys(
                 IF str_contains(d.runText[run], key)
                 THEN Run_set_text(d, run, str_replace(d.runText[run], key, str(val)))
                 ELSE d,
                 run, Tail(context))

RECURSIVE replace_runs(_, _, _)
replace_runs(d, runs, context) ==
    IF runs = <<>> THEN d
    ELSE replace_runs(replace_keys(d, Head(runs), context), Tail(runs), context)

DocDecorate_replace(d, c, context) ==
    Result(replace_runs(d, c.runs, context), c, "none", NoneRef)

(* The cells of the new row get one run each, holding str(row_data[index]) *)
RECURSIVE fill_row(_, _, _)
fill_row(d, cells, row_data) ==
    IF cells = <<>> THEN d
    ELSE LET p == Cell_paragraphs(d, Head(cells))[1]
             run == d.nextId
             d1 == Paragraph_add_run(d, p, NoneText)
         IN  fill_row(Run_set_text(d1, run, str(Head(row_data))), Tail(cells), Tail(row_data))

(* append_row comparing the lengths before the row is added *)
DocDecorate_append_row_check_first(d, c, table_index, row_data) ==
    LET at == PyIndex(Len(c.tables), table_index)
    IN  IF at = 0 THEN Result(d, c, "Exception", NoneRef)
        ELSE LET t == c.tables[at]
                 d1 == Table_add_row(d, t)
                 i == Table_row_count(d1, t) - 1
                 cells == Table_row_cells(d1, t, i)
             IN  IF Len(cells) # Len(row_data)
                 THEN Result(d, c, "Exception", NoneRef)
                 ELSE LET d2 == fill_row(d1, cells, row_data)
                      IN  Result(d2, [c EXCEPT !.tables = part_get_tables(d2)],
                                 "none", RowRef(t, i))

DocDecorate_append_row(d, c, table_index, row_data) ==
    LET at == PyIndex(Len(c.tables), table_index)
    IN  IF at = 0 THEN Result(d, c, "Exception", NoneRef)
        ELSE LET t == c.tables[at]
                 d1 == Table_add_row(d, t)
                 i == Table_row_count(d1, t) - 1
                 cells == Table_row_cells(d1, t, i)
             IN  IF Len(cells) # Len(row_data)
                 THEN Result(d1, c, "Exception", NoneRef)
                 ELSE LET d2 == fill_row(d1, cells, row_data)
                      IN  Result(d2, [c EXCEPT !.tables = part_get_tables(d2)],
                                 "none", RowRef(t, i))

(* append_rows going on with the later rows after a row failed *)
RECURSIVE DocDecorate_append_rows_go_on(_, _, _, _)
DocDecorate_append_rows_go_on(d, c, table_index, rows_data) ==
    IF rows_data = <<>> THEN Result(d, c, "none", NoneRef)
    ELSE LET r == DocDecorate_append_row(d, c, table_index, Head(rows_data))
             rest == DocDecorate_append_rows_go_on(r.doc, r.dec, table_index, Tail(rows_data))
         IN  IF r.err # "none" THEN [rest EXCEPT !.err = r.err] ELSE rest

RECURSIVE DocDecorate_append_rows(_, _, _, _)
DocDecorate_append_rows(d, c, table_index, rows_data) ==
    IF rows_data = <<>> THEN Result(d, c, "none", NoneRef)
    ELSE LET r == DocDecorate_append_row(d, c, table_index, Head(rows_data))
         IN  IF r.err # "none" THEN r
             ELSE DocDecorate_append_rows(r.doc, r.dec, table_index, Tail(rows_data))

(* The first cached paragraph whose text is the flag, 0 when there is none *)
flag_paragraph(d, c, flag) ==
    LET hit == {i \in 1..Len(c.paragraphs) : flag.s = Paragraph_text(d, c.paragraphs[i])}
    IN  IF hit = {} THEN 0
        ELSE c.paragraphs[CHOOSE i \in hit : \A j \in hit : i <= j]

(* add_paragraph inserting before the last cached paragraph of the flag's text *)
DocDecorate_add_paragraph_last_match(d, c, content, flag) ==
    LET hit == {i \in 1..Len(c.paragraphs) : flag.s = Paragraph_text(d, c.paragraphs[i])}
    IN  IF Truthy(flag)
        THEN IF hit = {} THEN Result(d, c, "none", NoneRef)
             ELSE LET p == c.paragraphs[CHOOSE i \in hit : \A j \in hit : j <= i]
                      d1 == Paragraph_insert_paragraph_before(d, p, content)
                  IN  Result(d1, [c EXCEPT !.paragraphs = part_get_paragraphs(d1)],
                             "none", Ref("p", d.nextId))
        ELSE LET d1 == Document_add_paragraph(d, content)
             IN  Result(d1, [c EXCEPT !.paragraphs = part_get_paragraphs(d1)],
                        "none", Ref("p", d.nextId))

DocDecorate_add_paragraph(d, c, content, flag) ==
    IF Truthy(flag)
    THEN LET p == flag_paragraph(d, c, flag)
         IN  IF p = 0 THEN Result(d, c, "none", NoneRef)
             ELSE LET d1 == Paragraph_insert_paragraph_before(d, p, content)
                  IN  Result(d1, [c EXCEPT !.paragraphs = part_get_paragraphs(d1)],
                             "none", Ref("p", d.nextId))
    ELSE LET d1 == Document_add_paragraph(d, content)
         IN  Result(d1, [c EXCEPT !.paragraphs = part_get_paragraphs(d1)],
                    "none", Ref("p", d.nextId))

(* The keys of add_picture from position k on, for one run, with the cause of
   a failed insertion let through *)
RECURSIVE add_picture_keys_cause(_, _, _, _)
add_picture_keys_cause(d, r, context, k) ==
    IF k > Len(context) THEN [doc |-> d, err |-> "none"]
    ELSE IF str_contains(d.runText[r], context[k].key)
    THEN LET d1 == Run_set_text(d, r, <<>>)
         IN  IF Image_open(context[k].val) # "none"
             THEN [doc |-> d1, err |-> Image_open(context[k].val)]
             ELSE add_picture_keys_cause(Run_add_picture(d1, r, context[k].val, 15, 0),
                                         r, context, k + 1)
    ELSE add_picture_keys_cause(d, r, context, k + 1)

(* for key in context: if key in run.text: the text is emptied and the picture
   of the key added, 15 cm wide; any exception becomes a plain Exception *)
RECURSIVE add_picture_keys(_, _, _, _)
add_picture_keys(d, r, context, k) ==
    IF k > Len(context) THEN [doc |-> d, err |-> "none"]
    ELSE IF str_contains(d.runText[r], context[k].key)
    THEN LET d1 == Run_set_text(d, r, <<>>)
         IN  IF Image_open(context[k].val) # "none"
             THEN [doc |-> d1, err |-> "Exception"]
             ELSE add_picture_keys(Run_add_picture(d1, r, context[k].val, 15, 0),
                                   r, context, k + 1)
    ELSE add_picture_keys(d, r, context, k + 1)

(* for run in self.runs, from position i on *)
RECURSIVE add_picture_runs(_, _, _, _)
add_picture_runs(d, runs, context, i) ==
    IF i > Len(runs) THEN [doc |-> d, err |-> "none"]
    ELSE LET r == add_picture_keys(d, runs[i], context, 1)
         IN  IF r.err # "none" THEN r
             ELSE add_picture_runs(r.doc, runs, context, i + 1)

DocDecorate_add_picture(d, c, context) ==
    LET r == add_picture_runs(d, c.runs, context, 1)
    IN  Result(r.doc, c, r.err, NoneRef)

(* delete_run matching a run that merely contains the text *)
DocDecorate_delete_run_substring(d, c, text) ==
    LET hit == {i \in 1..Len(c.runs) : str_contains(d.runText[c.runs[i]], text)}
    IN  IF hit = {} THEN Result(d, c, "none", NoneRef)
        ELSE LET i == CHOOSE i \in hit : \A j \in hit : i <= j
             IN  Result(Run_set_text(d, c.runs[i], <<>>),
                        [c EXCEPT !.runs = SubSeq(@, 1, i - 1) \o SubSeq(@, i + 1, Len(@))],
                        "none", NoneRef)

DocDecorate_delete_run(d, c, text) ==
    LET hit == {i \in 1..Len(c.runs) : d.runText[c.runs[i]] = text}
    IN  IF hit = {} THEN Result(d, c, "none", NoneRef)
        ELSE LET i == CHOOSE i \in hit : \A j \in hit : i <= j
             IN  Result(Run_set_text(d, c.runs[i], <<>>),
                        [c EXCEPT !.runs = SubSeq(@, 1, i - 1) \o SubSeq(@, i + 1, Len(@))],
                        "none", NoneRef)

(* add_table without the refresh of the cached tables *)
DocDecorate_add_table_stale(d, c, rows, columns) ==
    Result(Document_add_table(d, rows, columns), c, "none", Ref("tbl", d.nextId))

DocDecorate_add_table(d, c, rows, columns) ==
    LET d1 == Document_add_table(d, rows, columns)
    IN  Result(d1, [c EXCEPT !.tables = part_get_tables(d1)], "none", Ref("tbl", d.nextId))

----------------------------------------------------------------------------
(* element.py: DOCXElement *)

NoCache == [set |-> FALSE, list |-> <<>>]

Cached(list) == [set |-> TRUE, list |-> list]

DOCXElement_init == [paragraphs |-> NoCache, tables |-> NoCache]

LocResult(l, err, ret) == [loc |-> l, err |-> err, ret |-> ret]

DOCXElement_get_paragraphs_of_document(d, l) ==
    [l EXCEPT !.paragraphs = Cached(Document_paragraphs(d))]

(* The assertion without its lower bound: a negative index counts from the end *)
DOCXElement_get_paragraph_by_index_no_lower_bound(d, l, index) ==
    LET l1 == IF ~l.paragraphs.set THEN DOCXElement_get_paragraphs_of_document(d, l) ELSE l
        ps == l1.paragraphs.list
    IN  IF ~(index < Len(ps))
        THEN LocResult(l1, "AssertionError", NoneRef)
        ELSE IF PyIndex(Len(ps), index) = 0 THEN LocResult(l1, "IndexError", NoneRef)
        ELSE LocResult(l1, "none", Ref("p", ps[PyIndex(Len(ps), index)]))

DOCXElement_get_paragraph_by_index(d, l, index) ==
    LET l1 == IF ~l.paragraphs.set THEN DOCXElement_get_paragraphs_of_document(d, l) ELSE l
        ps == l1.paragraphs.list
    IN  IF ~(0 <= index /\ index < Len(ps))
        THEN LocResult(l1, "AssertionError", NoneRef)
        ELSE LocResult(l1, "none", Ref("p", ps[index + 1]))

DOCXElement_get_paragraph(d, l, paragraph) ==
    IF paragraph.kind = "int"
    THEN DOCXElement_get_paragraph_by_index(d, l, paragraph.idx)
    ELSE LocResult(l, "none", paragraph)

DOCXElement_get_cells_of_table(d, table) == Table_cells(d, table)

(* if self.tables is None: self.get_tables_of_document(), which returns
   doc.tables and assigns nothing, so self.tables is still None at the
   assertion: 0 <= index fails first for a negative index, and len(None)
   raises TypeError for any other *)
DOCXElement_get_table_by_index(d, l, index) ==
    IF ~l.tables.set
    THEN IF ~(0 <= index) THEN LocResult(l, "AssertionError", NoneRef)
         ELSE LocResult(l, "TypeError", NoneRef)
    ELSE IF ~(0 <= index /\ index < Len(l.tables.list))
    THEN LocResult(l, "AssertionError", NoneRef)
    ELSE LocResult(l, "none", Ref("tbl", l.tables.list[index + 1]))

DOCXElement_get_table(d, l, table) ==
    IF table.kind = "int"
    THEN DOCXElement_get_table_by_index(d, l, table.idx)
    ELSE LocResult(l, "none", table)

DOCXElement_get_paragraphs_of_cell(d, cell) == Cell_paragraphs(d, cell)

DOCXElement_get_paragraphs_of_table(d, table) ==
    Flatten(MapSeq(DOCXElement_get_cells_of_table(d, table),
                   LAMBDA cell : DOCXElement_get_paragraphs_of_cell(d, cell)))

DOCXElement_get_tables_of_document(d) == Document_tables(d)

(* The tables before the top-level paragraphs *)
DOCXElement_get_all_paragraphs_tables_first(d) ==
    Flatten(MapSeq(DOCXElement_get_tables_of_document(d),
                   LAMBDA table : DOCXElement_get_paragraphs_of_table(d, table)))
    \o Document_paragraphs(d)

DOCXElement_get_all_paragraphs(d) ==
    Document_paragraphs(d)
    \o Flatten(MapSeq(DOCXElement_get_tables_of_document(d),
                      LAMBDA table : DOCXElement_get_paragraphs_of_table(d, table)))

DOCXElement_get_all_runs(d) ==
    Flatten(MapSeq(DOCXElement_get_all_paragraphs(d), LAMBDA p : Paragraph_runs(d, p)))

ElementResult(err, list) == [err |-> err, list |-> list]

(* get_cells_of_table_element with the table's cells read, not called *)
DOCXElement_get_cells_of_table_element_read(d, element) ==
    IF element.kind = "tbl" THEN ElementResult("none", Table_cells(d, element.id))
    ELSE IF element.kind = "cell" THEN ElementResult("none", <<element.id>>)
    ELSE IF element.kind = "row"
    THEN ElementResult("none", Table_row_cells(d, element.id, element.idx))
    ELSE ElementResult("none", Table_column_cells(d, element.id, element.idx))

(* For a Table: element._cells(), a call of the list that the property _cells
   returns; for a cell [element]; else element.cells *)
DOCXElement_get_cells_of_table_element(d, element) ==
    IF element.kind = "tbl" THEN ElementResult("TypeError", <<>>)
    ELSE IF element.kind = "cell" THEN ElementResult("none", <<element.id>>)
    ELSE IF element.kind = "row"
    THEN ElementResult("none", Table_row_cells(d, element.id, element.idx))
    ELSE ElementResult("none", Table_column_cells(d, element.id, element.idx))

DOCXElement_get_paragraphs_of_table_element(d, element) ==
    LET cells == DOCXElement_get_cells_of_table_element(d, element)
    IN  IF cells.err # "none" THEN cells
        ELSE ElementResult("none",
                 Flatten(MapSeq(cells.list, LAMBDA cell : Cell_paragraphs(d, cell))))

DOCXElement_get_runs_in_table_element(d, element) ==
    LET paragraphs == DOCXElement_get_paragraphs_of_table_element(d, element)
    IN  IF paragraphs.err # "none" THEN paragraphs
        ELSE ElementResult("none",
                 Flatten(MapSeq(paragraphs.list, LAMBDA p : Paragraph_runs(d, p))))

(* get_paragraphs_of_table(element) of any table element: element._cells is an
   attribute of a Table only *)
DOCXElement_get_paragraphs_of_table_of(d, element) ==
    IF element.kind = "tbl"
    THEN ElementResult("none", DOCXElement_get_paragraphs_of_table(d, element.id))
    ELSE ElementResult("AttributeError", <<>>)

----------------------------------------------------------------------------
(* style.py: DocStyle *)

StyleResult(d, err) == [doc |-> d, err |-> err]

(* The defaults of en_font and zh_font *)
DefaultEnFont == "w:eastAsia"

DefaultZhFont == "Microsoft YaHei"

(* The arguments of a call as the function receives them: passed names the
   parameters the caller wrote, the others hold their defaults. font_size is 0
   for None; color is "None", "tuple" or "str" *)
StyleArgs(passed, en_font, zh_font, font_size, color, bold, italic) ==
    [passed |-> passed,
     en_font |-> IF "en_font" \in passed THEN en_font ELSE DefaultEnFont,
     zh_font |-> IF "zh_font" \in passed THEN zh_font ELSE DefaultZhFont,
     font_size |-> IF "font_size" \in passed THEN font_size ELSE 0,
     color |-> IF "color" \in passed THEN color ELSE "None",
     bold |-> IF "bold" \in passed THEN bold ELSE "None",
     italic |-> IF "italic" \in passed THEN italic ELSE "None"]

(* Pt(font_size) stored as w:sz, in half-points *)
Pt(font_size) == 2 * font_size

(* if en_font is not None or zh_font is not None: run.font.name = zh_font, then
   run._element.rPr.rFonts.set(qn(en_font), zh_font). A name of None removes
   w:rFonts, so that rPr.rFonts is None; qn(None) has no split; qn of a tag
   without a namespace prefix cannot be unpacked *)
set_run_fonts(d, run, a) ==
    LET f == Run_font(d, run)
    IN  IF a.en_font = "None" /\ a.zh_font = "None" THEN StyleResult(d, "none")
        ELSE IF a.zh_font = "None"
        THEN StyleResult(Run_set_font(d, run, [f EXCEPT !.name = "None",
                                                        !.eastAsia = "None"]),
                         "AttributeError")
        ELSE IF a.en_font = "None"
        THEN StyleResult(Run_set_font(d, run, [f EXCEPT !.name = a.zh_font]),
                         "AttributeError")
        ELSE IF a.en_font = "w:eastAsia"
        THEN StyleResult(Run_set_font(d, run, [f EXCEPT !.name = a.zh_font,
                                                        !.eastAsia = a.zh_font]),
                         "none")
        ELSE StyleResult(Run_set_font(d, run, [f EXCEPT !.name = a.zh_font]),
                         "ValueError")

(* The rest of set_run_attribute: the size; the colour, assigned to
   run.font.color, a property without a setter; bold; italic *)
set_run_rest(d, run, a) ==
    LET f == Run_font(d, run)
        f1 == IF a.font_size # 0 THEN [f EXCEPT !.size = Pt(a.font_size)] ELSE f
        f2 == IF a.bold # "None" THEN [f1 EXCEPT !.bold = a.bold] ELSE f1
        f3 == IF a.italic # "None" THEN [f2 EXCEPT !.italic = a.italic] ELSE f2
    IN  IF a.color # "None"
        THEN StyleResult(IF f1 = f THEN d ELSE Run_set_font(d, run, f1), "AttributeError")
        ELSE StyleResult(IF f3 = f THEN d ELSE Run_set_font(d, run, f3), "none")

DocStyle_set_run_attribute(d, run, a) ==
    LET r == set_run_fonts(d, run, a)
    IN  IF r.err # "none" THEN r ELSE set_run_rest(r.doc, run, a)

(* for run in paragraph.runs, from position i on *)
RECURSIVE set_runs_attribute(_, _, _, _)
set_runs_attribute(d, runs, a, i) ==
    IF i > Len(runs) THEN StyleResult(d, "none")
    ELSE LET r == DocStyle_set_run_attribute(d, runs[i], a)
         IN  IF r.err # "none" THEN r ELSE set_runs_attribute(r.doc, runs, a, i + 1)

DocStyle_set_paragraph_attributes(d, paragraph, a) ==
    set_runs_attribute(d, Paragraph_runs(d, paragraph), a, 1)

DocStyle_set_paragraph_alignment(d, paragraph, alignment) ==
    Paragraph_set_alignment(d, paragraph, alignment)

RECURSIVE set_paragraphs_alignment(_, _, _, _)
set_paragraphs_alignment(d, paragraphs, alignment, i) ==
    IF i > Len(paragraphs) THEN d
    ELSE set_paragraphs_alignment(
             DocStyle_set_paragraph_alignment(d, paragraphs[i], alignment),
             paragraphs, alignment, i + 1)

DocStyle_set_table_element_content_alignment(d, element, alignment) ==
    LET paragraphs == DOCXElement_get_paragraphs_of_table_of(d, element)
    IN  IF paragraphs.err # "none" THEN StyleResult(d, paragraphs.err)
        ELSE StyleResult(set_paragraphs_alignment(d, paragraphs.list, alignment, 1), "none")

DocStyle_set_table_element_content_attribute(d, element, a) ==
    LET runs == DOCXElement_get_runs_in_table_element(d, element)
    IN  IF runs.err # "none" THEN StyleResult(d, runs.err)
        ELSE set_runs_attribute(d, runs.list, a, 1)

----------------------------------------------------------------------------
(* content.py: DocContent *)

ContentResult(d, err, ret) == [doc |-> d, err |-> err, ret |-> ret]

(* DocContent(doc): a path is opened and its document is the one the other
   facades are then given (shared); anything that is neither a str nor a
   DocContent, a Document object included, falls to the else branch and the
   facade works on a new blank docx.Document() of its own *)
DocContent_init(arg) ==
    IF arg = "str" THEN [shared |-> TRUE, doc |-> EmptyDocument]
    ELSE [shared |-> FALSE, doc |-> EmptyDocument]

DocContent_add_paragraph(d, text) ==
    ContentResult(Document_add_paragraph(d, text), "none", Ref("p", d.nextId))

DocContent_insert_paragraph_before(d, text, position) ==
    LET r == DOCXElement_get_paragraph(d, DOCXElement_init, position)
    IN  IF r.err # "none" THEN ContentResult(d, r.err, NoneRef)
        ELSE ContentResult(Paragraph_insert_paragraph_before(d, r.ret.id, text),
                           "none", Ref("p", d.nextId))

(* append_text_to_paragraph resolving the position with the long-lived
   locator, whose cached paragraphs may be an earlier snapshot *)
DocContent_append_text_to_paragraph_cached(d, text, position) ==
    LET r == DOCXElement_get_paragraph(d, loc, position)
    IN  IF r.err # "none" THEN ContentResult(d, r.err, NoneRef)
        ELSE ContentResult(Paragraph_add_run(d, r.ret.id, text), "none", Ref("run", d.nextId))

DocContent_append_text_to_paragraph(d, text, position) ==
    LET r == DOCXElement_get_paragraph(d, DOCXElement_init, position)
    IN  IF r.err # "none" THEN ContentResult(d, r.err, NoneRef)
        ELSE ContentResult(Paragraph_add_run(d, r.ret.id, text), "none", Ref("run", d.nextId))

(* for index in range(1, n): the first cell is left out *)
RECURSIVE fill_cells_from_second(_, _, _, _)
fill_cells_from_second(d, cells, data, n) ==
    IF n <= 1 THEN d
    ELSE Cell_set_text(fill_cells_from_second(d, cells, data, n - 1), cells[n], data[n])

(* for index in range(n): cells[index].text = data[index] *)
RECURSIVE fill_cells(_, _, _, _)
fill_cells(d, cells, data, n) ==
    IF n <= 0 THEN d
    ELSE Cell_set_text(fill_cells(d, cells, data, n - 1), cells[n], data[n])

(* The first assertion with `or` for `and` *)
DocContent_add_table_or(d, rows, columns, data) ==
    IF ~(rows > 0 \/ columns > 0)
    THEN ContentResult(d, "AssertionError: rows, columns", NoneRef)
    ELSE IF ~(Len(data) >= rows * columns)
    THEN ContentResult(d, "AssertionError: data", NoneRef)
    ELSE LET table == d.nextId
             d1 == Document_add_table(d, rows, columns)
             cells == DOCXElement_get_cells_of_table(d1, table)
         IN  ContentResult(fill_cells(d1, cells, data, NonNeg(rows) * NonNeg(columns)),
                           "none", Ref("tbl", table))

(* The second assertion made after the table is created *)
DocContent_add_table_late(d, rows, columns, data) ==
    IF ~(rows > 0 /\ columns > 0)
    THEN ContentResult(d, "AssertionError: rows, columns", NoneRef)
    ELSE LET table == d.nextId
             d1 == Document_add_table(d, rows, columns)
             cells == DOCXElement_get_cells_of_table(d1, table)
         IN  IF ~(Len(data) >= rows * columns)
             THEN ContentResult(d1, "AssertionError: data", NoneRef)
             ELSE ContentResult(fill_cells(d1, cells, data, rows * columns),
                                "none", Ref("tbl", table))

DocContent_add_table(d, rows, columns, data) ==
    IF ~(rows > 0 /\ columns > 0)
    THEN ContentResult(d, "AssertionError: rows, columns", NoneRef)
    ELSE IF ~(Len(data) >= rows * columns)
    THEN ContentResult(d, "AssertionError: data", NoneRef)
    ELSE LET table == d.nextId
             d1 == Document_add_table(d, rows, columns)
             cells == DOCXElement_get_cells_of_table(d1, table)
         IN  ContentResult(fill_cells(d1, cells, data, rows * columns),
                           "none", Ref("tbl", table))

(* len(row) of a table row: python-docx's _Row defines no __len__, so len()
   raises TypeError; -1 stands for the raise *)
Row_len(d, table, i) == -1

(* row * column_length, the loop variable row rebound to the _Row that
   table.add_row() returned: _Row defines no __mul__, so it raises TypeError;
   -1 stands for the raise *)
Row_times(row, column_length) == -1

(* add_picture_in_run matching a run that merely contains the text *)
DocContent_add_picture_in_run_substring(d, picture, run, width, height) ==
    LET runs == DOCXElement_get_all_runs(d)
        hit == {i \in 1..Len(runs) : str_contains(d.runText[runs[i]], run.text)}
        found == run.str => hit # {}
        r == IF run.str THEN runs[CHOOSE i \in hit : \A j \in hit : i <= j] ELSE run.id
    IN  IF ~found THEN ContentResult(d, "none", NoneRef)
        ELSE IF Image_open(picture) # "none"
        THEN ContentResult(d, Image_open(picture), NoneRef)
        ELSE ContentResult(Run_add_picture(d, r, picture, width, height), "none", NoneRef)

(* width in cm; height in cm, 0 for None: Cm(height) if height else None *)
DocContent_add_picture_in_run(d, picture, run, width, height) ==
    LET runs == DOCXElement_get_all_runs(d)
        hit == {i \in 1..Len(runs) : d.runText[runs[i]] = run.text}
        found == run.str => hit # {}
        r == IF run.str THEN runs[CHOOSE i \in hit : \A j \in hit : i <= j] ELSE run.id
    IN  IF ~found THEN ContentResult(d, "none", NoneRef)
        ELSE IF Image_open(picture) # "none"
        THEN ContentResult(d, Image_open(picture), NoneRef)
        ELSE ContentResult(Run_add_picture(d, r, picture, width, height), "none", NoneRef)

DocContent_append_rows(d, table, data) ==
    IF Table_row_count(d, table) = 0 THEN ContentResult(d, "IndexError", NoneRef)
    ELSE LET column_length == Row_len(d, table, 0)
         IN  IF column_length < 0 THEN ContentResult(d, "TypeError", NoneRef)
             ELSE LET rows == Len(data) \div column_length
                  IN  IF rows <= 0 THEN ContentResult(d, "none", NoneRef)
                      ELSE LET d1 == Table_add_row(d, table)
                               row == RowRef(table, Table_row_count(d1, table) - 1)
                           IN  IF Row_times(row, column_length) < 0
                               THEN ContentResult(d1, "TypeError", NoneRef)
                               ELSE ContentResult(d1, "none", NoneRef)

----------------------------------------------------------------------------
(* Texts and arguments the calls are made with *)

tA == <<"a">>

tB == <<"b">>

tAB == <<"a", "b">>

tZZ == <<"z", "z">>

foo == <<"f", "o", "o">>

bar == <<"b", "a", "r">>

foobar123 == <<"f", "o", "o", "b", "a", "r", "1", "2", "3">>

(* A document as loaded from a file: three paragraphs around a 1 x 2 table.
   Paragraph 1 holds run 2 "foobar123"; paragraph 3 holds runs 4 "ab" and 5 "a";
   table 6 holds cells 7 (text "b", paragraph 11, run 12) and 9 (empty paragraph
   10); paragraph 13 holds run 14 "a". *)
SampleDocument ==
    LET d1 == Document_add_paragraph(EmptyDocument, Some(foobar123))
        d2 == Document_add_paragraph(d1, Some(tAB))
        d3 == Paragraph_add_run(d2, 3, Some(tA))
        d4 == Document_add_table(d3, 1, 2)
        d5 == Cell_set_text(d4, 7, tB)
    IN  Document_add_paragraph(d5, Some(tA))

InitialDocuments == {EmptyDocument, SampleDocument}

KV(k, v) == [key |-> k, val |-> v]

Contexts ==
    { <<KV(foo, StrV(bar))>>,
      <<KV(tA, StrV(tB)), KV(tB, StrV(tA))>>,
      <<KV(tB, IntV(12))>>,
      <<KV(tAB, StrV(<<>>))>> }

TableIndexes == {-1, 0, 1}

RowDatas == { <<>>, <<StrV(tA)>>, <<StrV(tA), IntV(7)>> }

RowsDatas ==
    { <<<<StrV(tA), StrV(tB)>>, <<StrV(tB), StrV(tA)>>>>,
      <<<<StrV(tA), StrV(tB)>>, <<StrV(tA)>>, <<StrV(tB), StrV(tA)>>>> }

Contents == {NoneText, Some(tA)}

Flags == {NoneText, Some(<<>>), Some(tA), Some(tZZ)}

RunTexts == {tA, tB, tZZ}

DecorateDims == {<<r, c>> : r \in {-1, 0, 1}, c \in {0, 1, 2}}

ContentDims == {<<-1, 2>>, <<0, 2>>, <<2, 0>>, <<1, 2>>, <<2, 2>>, <<2, 1>>}

DataPool == <<<<"p">>, <<"q">>, <<"r">>, <<"s">>, <<"t">>>>

DataLens == {1, 4, 5}

Datas == {SubSeq(DataPool, 1, n) : n \in DataLens}

NewTexts == {<<>>, tA}

(* Positions: indexes around both ends of the paragraph list, the first
   top-level paragraph and the first paragraph of a cell *)
Positions(d) ==
    LET ps == Document_paragraphs(d)
        cs == part_get_paragraphs_in_tables(d)
    IN  {IntRef(i) : i \in {-1, 0, 1, Len(ps) - 1, Len(ps)}}
        \cup {Ref("p", ps[i]) : i \in {1} \cap DOMAIN ps}
        \cup {Ref("p", cs[i]) : i \in {1} \cap DOMAIN cs}

(* Calls of the attribute setters: only the size; only the colour; only bold;
   only italic; both fonts and the size; both fonts None with size and bold; a
   western font name *)
StyleCalls ==
    { StyleArgs({"font_size"}, "None", "None", 12, "None", "None", "None"),
      StyleArgs({"color"}, "None", "None", 0, "str", "None", "None"),
      StyleArgs({"bold"}, "None", "None", 0, "None", "True", "None"),
      StyleArgs({"italic"}, "None", "None", 0, "None", "None", "False"),
      StyleArgs({"en_font", "zh_font", "font_size"}, "w:eastAsia", "SimSun", 9,
                "None", "None", "None"),
      StyleArgs({"en_font", "zh_font", "font_size", "bold"}, "None", "None", 12,
                "None", "False", "None"),
      StyleArgs({"en_font"}, "Arial", "None", 0, "None", "None", "None") }

(* Calls for the setters that walk several runs: only the size; both fonts and
   the size *)
StyleCallsOfMany ==
    { StyleArgs({"font_size"}, "None", "None", 12, "None", "None", "None"),
      StyleArgs({"en_font", "zh_font", "font_size"}, "w:eastAsia", "SimSun", 9,
                "None", "None", "None") }

Alignments == {"CENTER", "RIGHT"}

(* The first table's elements: the table, its first and last row, its first
   and last column, its first and last cell *)
TableElements(d) ==
    LET ts == Document_tables(d)
    IN  IF ts = <<>> THEN {}
        ELSE LET t == ts[1]
                 cells == Table_cells(d, t)
             IN  {Ref("tbl", t)}
                 \cup {RowRef(t, i) : i \in {0, Table_row_count(d, t) - 1}}
                 \cup {ColumnRef(t, j) : j \in {0, Table_column_count(d, t) - 1}}
                 \cup {Ref("cell", cells[i]) : i \in {1, Len(cells)} \cap DOMAIN cells}

(* The run argument of add_picture_in_run: a text, or a run object *)
RunByText(text) == [str |-> TRUE, text |-> text, id |-> 0]

RunObject(r) == [str |-> FALSE, text |-> <<>>, id |-> r]

RunArgs(d) ==
    LET rs == part_get_all_runs(d)
    IN  {RunByText(tA), RunByText(tZZ)} \cup {RunObject(rs[i]) : i \in {1} \cap DOMAIN rs}

(* picture, height in cm (0 for None) *)
PictureArgs == { <<"logo.png", 0>>, <<"chart.png", 5>>, <<"missing.png", 0>> }

PictureContexts ==
    { <<KV(tA, "logo.png")>>,
      <<KV(tAB, "chart.png"), KV(tA, "logo.png")>>,
      <<KV(tB, "notes.txt"), KV(foo, "logo.png")>>,
      <<KV(tA, "logo.png"), KV(tB, "missing.png")>> }

----------------------------------------------------------------------------
(* The calls *)

(* self.doc of the DocContent *)
ContentDoc == IF con.shared THEN doc ELSE con.doc

Init ==
    /\ doc \in InitialDocuments
    /\ con = DocContent_init("str")
    /\ dec = DocDecorate_init(doc)
    /\ loc = DOCXElement_init
    /\ last = [op |-> "init", args |-> <<>>, err |-> "none", ret |-> NoneRef]
    /\ steps = 0

Called(op, args, err, ret) ==
    /\ last' = [op |-> op, args |-> args, err |-> err, ret |-> ret]
    /\ steps' = steps + 1

Decorate(op, args, r) ==
    /\ steps < MaxSteps
    /\ doc' = r.doc
    /\ dec' = r.dec
    /\ UNCHANGED <<con, loc>>
    /\ Called(op, args, r.err, r.ret)

Content(op, args, r) ==
    /\ steps < MaxSteps
    /\ IF con.shared THEN doc' = r.doc /\ con' = con
       ELSE con' = [con EXCEPT !.doc = r.doc] /\ doc' = doc
    /\ UNCHANGED <<dec, loc>>
    /\ Called(op, args, r.err, r.ret)

Locate(op, args, r) ==
    /\ steps < MaxSteps
    /\ loc' = r.loc
    /\ UNCHANGED <<doc, con, dec>>
    /\ Called(op, args, r.err, r.ret)

D_replace ==
    \E context \in Contexts :
        Decorate("DocDecorate.replace", [context |-> context],
                 DocDecorate_replace(doc, dec, context))

D_append_row ==
    \E table_index \in TableIndexes, row_data \in RowDatas :
        Decorate("DocDecorate.append_row",
                 [table_index |-> table_index, row_data |-> row_data],
                 DocDecorate_append_row(doc, dec, table_index, row_data))

D_append_rows ==
    \E table_index \in {0, 2}, rows_data \in RowsDatas :
        Decorate("DocDecorate.append_rows",
                 [table_index |-> table_index, rows_data |-> rows_data],
                 DocDecorate_append_rows(doc, dec, table_index, rows_data))

D_add_paragraph ==
    \E content \in Contents, flag \in Flags :
        Decorate("DocDecorate.add_paragraph", [content |-> content, flag |-> flag],
                 DocDecorate_add_paragraph(doc, dec, content, flag))

D_delete_run ==
    \E text \in RunTexts :
        Decorate("DocDecorate.delete_run", [text |-> text],
                 DocDecorate_delete_run(doc, dec, text))

D_add_table ==
    \E rc \in DecorateDims :
        Decorate("DocDecorate.add_table", [rows |-> rc[1], columns |-> rc[2]],
                 DocDecorate_add_table(doc, dec, rc[1], rc[2]))

C_add_paragraph ==
    \E text \in NewTexts :
        Content("DocContent.add_paragraph", [text |-> text],
                DocContent_add_paragraph(ContentDoc, Some(text)))

C_insert_paragraph_before ==
    \E text \in NewTexts, position \in Positions(ContentDoc) :
        Content("DocContent.insert_paragraph_before", [text |-> text, position |-> position],
                DocContent_insert_paragraph_before(ContentDoc, Some(text), position))

C_append_text_to_paragraph ==
    \E text \in {tB}, position \in Positions(ContentDoc) :
        Content("DocContent.append_text_to_paragraph", [text |-> text, position |-> position],
                DocContent_append_text_to_paragraph(ContentDoc, Some(text), position))

C_add_table ==
    \E rc \in ContentDims, data \in Datas :
        Content("DocContent.add_table", [rows |-> rc[1], columns |-> rc[2], data |-> data],
                DocContent_add_table(ContentDoc, rc[1], rc[2], data))

C_append_rows ==
    \E table \in Range(Document_tables(ContentDoc)), data \in Datas :
        Content("DocContent.append_rows", [table |-> table, data |-> data],
                DocContent_append_rows(ContentDoc, table, data))

D_add_picture ==
    \E context \in PictureContexts :
        Decorate("DocDecorate.add_picture", [context |-> context],
                 DocDecorate_add_picture(doc, dec, context))

C_add_picture_in_run ==
    \E pa \in PictureArgs, run \in RunArgs(ContentDoc) :
        Content("DocContent.add_picture_in_run",
                [picture |-> pa[1], run |-> run, width |-> 15, height |-> pa[2]],
                DocContent_add_picture_in_run(ContentDoc, pa[1], run, 15, pa[2]))

Style(op, args, r) ==
    /\ steps < MaxSteps
    /\ doc' = r.doc
    /\ UNCHANGED <<con, dec, loc>>
    /\ Called(op, args, r.err, NoneRef)

S_set_run_attribute ==
    \E a \in StyleCalls :
        \E i \in {1, Len(part_get_all_runs(doc))} \cap DOMAIN part_get_all_runs(doc) :
            Style("DocStyle.set_run_attribute",
                  [run |-> part_get_all_runs(doc)[i], a |-> a],
                  DocStyle_set_run_attribute(doc, part_get_all_runs(doc)[i], a))

S_set_paragraph_attributes ==
    \E a \in StyleCallsOfMany :
        \E i \in {2} \cap DOMAIN Document_paragraphs(doc) :
            Style("DocStyle.set_paragraph_attributes",
                  [paragraph |-> Document_paragraphs(doc)[i], a |-> a],
                  DocStyle_set_paragraph_attributes(doc, Document_paragraphs(doc)[i], a))

S_set_table_element_content_alignment ==
    \E element \in TableElements(doc), alignment \in Alignments :
        Style("DocStyle.set_table_element_content_alignment",
              [element |-> element, alignment |-> alignment],
              DocStyle_set_table_element_content_alignment(doc, element, alignment))

S_set_table_element_content_attribute ==
    \E element \in TableElements(doc), a \in StyleCallsOfMany :
        Style("DocStyle.set_table_element_content_attribute",
              [element |-> element, a |-> a],
              DocStyle_set_table_element_content_attribute(doc, element, a))

L_get_runs_in_table_element ==
    \E element \in TableElements(doc) :
        LET r == DOCXElement_get_runs_in_table_element(doc, element)
        IN  Locate("DOCXElement.get_runs_in_table_element", [element |-> element],
                   LocResult(loc, r.err, ListRef(r.list)))

(* Indexes around both ends of a list of up to two items *)
LookupIndexes == {-1, 0, 1, 2}

L_get_table ==
    \E table \in {IntRef(i) : i \in LookupIndexes}
                  \cup {Ref("tbl", t) : t \in Range(Document_tables(doc))} :
        Locate("DOCXElement.get_table", [table |-> table],
               DOCXElement_get_table(doc, loc, table))

Part(op, args, r) ==
    /\ steps < MaxSteps
    /\ UNCHANGED <<doc, con, dec, loc>>
    /\ Called(op, args, r.err, r.ret)

P_get_row_in_table ==
    \E table \in Range(Document_tables(doc)), row_index \in LookupIndexes :
        Part("part.get_row_in_table", [table |-> table, row_index |-> row_index],
             part_get_row_in_table(doc, table, row_index))

P_get_column_in_table ==
    \E table \in Range(Document_tables(doc)), column_index \in LookupIndexes :
        Part("part.get_column_in_table", [table |-> table, column_index |-> column_index],
             part_get_column_in_table(doc, table, column_index))

L_get_paragraphs_of_document ==
    Locate("DOCXElement.get_paragraphs_of_document", <<>>,
           LocResult(DOCXElement_get_paragraphs_of_document(doc, loc), "none", NoneRef))

L_get_paragraph ==
    \E paragraph \in Positions(doc) :
        Locate("DOCXElement.get_paragraph", [paragraph |-> paragraph],
               DOCXElement_get_paragraph(doc, loc, paragraph))

NextDecorate ==
    \/ D_replace
    \/ D_append_row
    \/ D_append_rows
    \/ D_add_paragraph
    \/ D_delete_run
    \/ D_add_table
    \/ D_add_picture

NextContent ==
    \/ C_add_paragraph
    \/ C_add_picture_in_run
    \/ C_insert_paragraph_before
    \/ C_append_text_to_paragraph
    \/ C_add_table
    \/ C_append_rows
    \/ L_get_paragraphs_of_document
    \/ L_get_paragraph

NextTables ==
    \/ C_add_table
    \/ C_append_rows
    \/ D_add_table
    \/ D_append_row

NextStyle ==
    \/ S_set_run_attribute
    \/ S_set_paragraph_attributes
    \/ S_set_table_element_content_alignment
    \/ S_set_table_element_content_attribute
    \/ L_get_runs_in_table_element
    \/ D_append_row

NextLookup ==
    \/ L_get_table
    \/ L_get_paragraphs_of_document
    \/ P_get_row_in_table
    \/ P_get_column_in_table
    \/ D_append_row
    \/ D_add_table

Next == NextDecorate \/ NextContent \/ NextStyle \/ NextLookup

Spec == Init /\ [][Next]_vars

SpecDecorate == Init /\ [][NextDecorate]_vars

SpecContent == Init /\ [][NextContent]_vars

SpecTables == Init /\ [][NextTables]_vars

SpecStyle == Init /\ [][NextStyle]_vars

SpecLookup == Init /\ [][NextLookup]_vars

(* The four facades built from one Document object *)
InitWrap ==
    /\ doc \in InitialDocuments
    /\ con = DocContent_init("Document")
    /\ dec = DocDecorate_init(doc)
    /\ loc = DOCXElement_init
    /\ last = [op |-> "init", args |-> <<>>, err |-> "none", ret |-> NoneRef]
    /\ steps = 0

NextWrap ==
    \/ C_add_paragraph
    \/ C_insert_paragraph_before
    \/ D_add_paragraph
    \/ D_delete_run
    \/ L_get_paragraphs_of_document
    \/ S_set_run_attribute

SpecWrap == InitWrap /\ [][NextWrap]_vars

----------------------------------------------------------------------------
(* Vocabulary of the claims *)

CellCount(d, t) == Len(Table_cells(d, t))

CellTexts(d, t) == MapSeq(Table_cells(d, t), LAMBDA c : Cell_text(d, c))

NewRuns(d, e) == DOMAIN e.runText \ DOMAIN d.runText

Without(s, x) == SelectSeq(s, LAMBDA y : y # x)

----------------------------------------------------------------------------
(* C1: after any sequence of DocDecorate structural operations the cached run
   list is the freshly computed flattened run list of the document, and the
   cached cell list is the freshly computed cells of all tables. *)
C1_CachedRunsAndCellsFresh ==
    /\ dec.runs = part_get_all_runs(doc)
    /\ dec.cells = part_get_cells_in_tables(doc)

(* C2: after any sequence of DocDecorate calls the cached top-level paragraph
   list is the document's top-level paragraphs in document order, and the cached
   table list is the document's tables in document order. *)
C2_CachedParagraphsAndTablesFresh ==
    /\ dec.paragraphs = Document_paragraphs(doc)
    /\ dec.tables = Document_tables(doc)

C2_Witness ==
    /\ last.op = "DocDecorate.add_paragraph"
    /\ Truthy(last.args.flag)
    /\ last.ret.kind = "p"
    /\ Len(dec.tables) >= 2
    /\ \E t \in Range(dec.tables) : Table_row_count(doc, t) >= 2

(* C3: for rows > 0, columns > 0 and len(data) >= rows*columns,
   DocContent.add_table appends one table of exactly rows*columns cells, the
   text of cell i in row-major order is data[i], the items of data beyond
   rows*columns are ignored, and the new table is returned. *)
C3_BuildTableFillsRowMajor ==
    [][ ( /\ last'.op = "DocContent.add_table"
          /\ last'.args.rows > 0
          /\ last'.args.columns > 0
          /\ Len(last'.args.data) >= last'.args.rows * last'.args.columns )
        => LET rows == last'.args.rows
               columns == last'.args.columns
               data == last'.args.data
               t == last'.ret.id
           IN  /\ last'.err = "none"
               /\ last'.ret.kind = "tbl"
               /\ t \notin Range(Document_tables(doc))
               /\ Document_tables(doc') = Document_tables(doc) \o <<t>>
               /\ Document_paragraphs(doc') = Document_paragraphs(doc)
               /\ Table_row_count(doc', t) = rows
               /\ Table_column_count(doc', t) = columns
               /\ CellCount(doc', t) = rows * columns
               /\ \A i \in 1..rows, j \in 1..columns :
                      Cell_text(doc', doc'.tblRows[t][i][j]) = data[(i - 1) * columns + j]
               /\ CellTexts(doc', t) = SubSeq(data, 1, rows * columns)
               /\ \A r \in NewRuns(doc, doc') :
                      \E i \in 1..(rows * columns) : doc'.runText[r] = data[i]
               /\ \A r \in DOMAIN doc.runText : doc'.runText[r] = doc.runText[r]
      ]_vars

C3_Witness ==
    /\ last.op = "DocContent.add_table"
    /\ last.err = "none"
    /\ last.args.rows = 2
    /\ last.args.columns = 2
    /\ Len(last.args.data) = 5
    /\ CellTexts(doc, last.ret.id) = <<<<"p">>, <<"q">>, <<"r">>, <<"s">>>>

(* C4: DocContent.add_table called with rows <= 0 or columns <= 0 fails on its
   first assertion, and the document has no new table afterwards. *)
C4_BuildTableRejectsNonPositive ==
    [][ ( /\ last'.op = "DocContent.add_table"
          /\ (last'.args.rows <= 0 \/ last'.args.columns <= 0) )
        => /\ last'.err = "AssertionError: rows, columns"
           /\ last'.ret = NoneRef
           /\ Document_tables(doc') = Document_tables(doc)
           /\ doc' = doc
      ]_vars

C4_Witness ==
    /\ last.op = "DocContent.add_table"
    /\ last.args.rows = 2
    /\ last.args.columns = 0
    /\ Len(last.args.data) = 4
    /\ last.err = "AssertionError: rows, columns"

(* C5: DocContent.add_table called with positive rows and columns and
   len(data) < rows*columns fails on its second assertion before any table is
   created: the table list and every existing cell text are unchanged. *)
C5_BuildTableRejectsShortData ==
    [][ ( /\ last'.op = "DocContent.add_table"
          /\ last'.args.rows > 0
          /\ last'.args.columns > 0
          /\ Len(last'.args.data) < last'.args.rows * last'.args.columns )
        => /\ last'.err = "AssertionError: data"
           /\ last'.ret = NoneRef
           /\ Document_tables(doc') = Document_tables(doc)
           /\ DOMAIN doc'.tblRows = DOMAIN doc.tblRows
           /\ \A t \in Range(Document_tables(doc)) : CellTexts(doc', t) = CellTexts(doc, t)
           /\ doc' = doc
      ]_vars

C5_Witness ==
    /\ last.op = "DocContent.add_table"
    /\ last.args.rows = 2
    /\ last.args.columns = 2
    /\ Len(last.args.data) = 1
    /\ last.err = "AssertionError: data"
    /\ Len(Document_tables(doc)) >= 1

(* C6: DocContent.append_rows(table, data) on a table with c columns appends
   exactly floor(len(data)/c) rows; the cell at column j of the k-th appended
   row gets text data[k*c + j]; the trailing len(data) mod c items are dropped
   without error; existing rows are unchanged. *)
C6_AppendRowsAppendsFloorRows ==
    [][ ( /\ last'.op = "DocContent.append_rows"
          /\ Table_column_count(doc, last'.args.table) > 0 )
        => LET t == last'.args.table
               data == last'.args.data
               c == Table_column_count(doc, t)
               n == Table_row_count(doc, t)
               k == Len(data) \div c
           IN  /\ last'.err = "none"
               /\ Table_row_count(doc', t) = n + k
               /\ \A i \in 1..k, j \in 1..c :
                      Cell_text(doc', doc'.tblRows[t][n + i][j]) = data[(i - 1) * c + j]
               /\ SubSeq(doc'.tblRows[t], 1, n) = doc.tblRows[t]
               /\ SubSeq(CellTexts(doc', t), 1, n * c) = CellTexts(doc, t)
      ]_vars

(* C7: in every reachable state every table's cell count is its row count times
   its column count, and each appended row adds exactly column-count cells to
   its table and leaves the column count unchanged. *)
C7_CellCountIsRowsTimesColumns ==
    /\ [](\A t \in DOMAIN doc.tblRows :
             CellCount(doc, t) = Table_row_count(doc, t) * Table_column_count(doc, t))
    /\ [][ \A t \in DOMAIN doc.tblRows :
             /\ t \in DOMAIN doc'.tblRows
             /\ Table_column_count(doc', t) = Table_column_count(doc, t)
             /\ Table_row_count(doc', t) >= Table_row_count(doc, t)
             /\ CellCount(doc', t) - CellCount(doc, t) =
                    (Table_row_count(doc', t) - Table_row_count(doc, t))
                        * Table_column_count(doc, t)
             /\ ( /\ last'.op = "DocDecorate.append_row"
                  /\ PyIndex(Len(dec.tables), last'.args.table_index) # 0
                  /\ t = dec.tables[PyIndex(Len(dec.tables), last'.args.table_index)] )
                => Table_row_count(doc', t) = Table_row_count(doc, t) + 1
       ]_vars

C7_Witness ==
    /\ last.op = "DocDecorate.append_row"
    /\ last.err = "Exception"
    /\ \E t \in Range(Document_tables(doc)) :
          /\ Table_row_count(doc, t) = 3
          /\ Table_column_count(doc, t) = 2
          /\ CellCount(doc, t) = 6

(* C8: for a document with N top-level paragraphs and 0 <= i < N,
   DocContent.insert_paragraph_before(text, i) yields N+1 top-level paragraphs
   in which the returned new paragraph is at index i with the given text, the
   paragraph previously at index i is at index i+1, and the relative order of
   the previously existing paragraphs is preserved. *)
C8_InsertBeforeIndex ==
    [][ ( /\ last'.op = "DocContent.insert_paragraph_before"
          /\ last'.args.position.kind = "int"
          /\ 0 <= last'.args.position.idx
          /\ last'.args.position.idx < Len(Document_paragraphs(doc)) )
        => LET i == last'.args.position.idx
               old == Document_paragraphs(doc)
               now == Document_paragraphs(doc')
               new == last'.ret.id
           IN  /\ last'.err = "none"
               /\ last'.ret.kind = "p"
               /\ new \notin DOMAIN doc.paraRuns
               /\ Len(now) = Len(old) + 1
               /\ now[i + 1] = new
               /\ Paragraph_text(doc', new) = last'.args.text
               /\ now[i + 2] = old[i + 1]
               /\ Without(now, new) = old
               /\ \A q \in Range(old) : Paragraph_text(doc', q) = Paragraph_text(doc, q)
               /\ Document_tables(doc') = Document_tables(doc)
      ]_vars

C8_Witness ==
    /\ last.op = "DocContent.insert_paragraph_before"
    /\ last.args.position = IntRef(2)
    /\ last.args.text = tA
    /\ last.err = "none"
    /\ Len(Document_paragraphs(doc)) >= 4
    /\ Document_paragraphs(doc)[3] = last.ret.id
    /\ \E k \in 1..(Len(doc.body) - 1) :
          doc.body[k].kind = "tbl" /\ doc.body[k + 1] = [kind |-> "p", id |-> last.ret.id]

(* C9: DOCXElement.get_paragraph given an integer index fails whenever the
   index is outside [0, len) of the paragraph list it resolves against (every
   negative index and index len included) and returns the paragraph at that
   index otherwise; given a paragraph it returns that paragraph unchanged; an
   insert_paragraph_before or append_text_to_paragraph that fails this way
   leaves the document unchanged. *)
C9_ResolveParagraph ==
    [][ /\ ( last'.op = "DOCXElement.get_paragraph" /\ last'.args.paragraph.kind = "int" )
           => LET i == last'.args.paragraph.idx
                  ps == IF loc.paragraphs.set THEN loc.paragraphs.list
                        ELSE Document_paragraphs(doc)
              IN  /\ (i < 0 \/ i >= Len(ps))
                       => last'.err = "AssertionError" /\ last'.ret = NoneRef
                  /\ (0 <= i /\ i < Len(ps))
                       => last'.err = "none" /\ last'.ret = Ref("p", ps[i + 1])
                  /\ doc' = doc
        /\ ( last'.op = "DOCXElement.get_paragraph" /\ last'.args.paragraph.kind # "int" )
           => /\ last'.err = "none"
              /\ last'.ret = last'.args.paragraph
              /\ doc' = doc
        /\ ( /\ last'.op \in {"DocContent.insert_paragraph_before",
                               "DocContent.append_text_to_paragraph"}
             /\ last'.args.position.kind = "int" )
           => LET i == last'.args.position.idx
                  ps == Document_paragraphs(doc)
              IN  /\ (i < 0 \/ i >= Len(ps))
                       => last'.err = "AssertionError" /\ doc' = doc
                  /\ (0 <= i /\ i < Len(ps)) => last'.err = "none"
                  /\ last'.op = "DocContent.append_text_to_paragraph" /\ 0 <= i /\ i < Len(ps)
                       => /\ Paragraph_runs(doc', ps[i + 1])
                               = Append(Paragraph_runs(doc, ps[i + 1]), last'.ret.id)
                          /\ Document_paragraphs(doc') = ps
        /\ ( /\ last'.op \in {"DocContent.insert_paragraph_before",
                               "DocContent.append_text_to_paragraph"}
             /\ last'.err # "none" )
           => doc' = doc
      ]_vars

C9_Witness ==
    /\ last.op = "DocContent.insert_paragraph_before"
    /\ last.args.position = IntRef(-1)
    /\ last.err = "AssertionError"
    /\ Len(Document_paragraphs(doc)) >= 4

(* The key occurs in the text at position i (from 1) *)
OccursAt(s, key, i) ==
    /\ i + Len(key) - 1 <= Len(s)
    /\ \A j \in 1..Len(key) : s[i + j - 1] = key[j]

Occurs(s, key) == \E i \in 1..(Len(s) + 1) : OccursAt(s, key, i)

(* The pieces of the text between the occurrences of a non-empty key *)
RECURSIVE Pieces(_, _)
Pieces(s, key) ==
    IF ~Occurs(s, key) THEN <<s>>
    ELSE LET i == CHOOSE i \in 1..Len(s) :
                      OccursAt(s, key, i) /\ \A j \in 1..(i - 1) : ~OccursAt(s, key, j)
         IN  <<SubSeq(s, 1, i - 1)>> \o Pieces(SubSeq(s, i + Len(key), Len(s)), key)

(* The values of the mappings, as text *)
Shown(v) == IF v.t = "str" THEN v.s ELSE (7 :> <<"7">> @@ 12 :> <<"1", "2">>)[v.n]

(* The text after the keys 1..k of the mapping have been applied in order *)
RECURSIVE Applied(_, _, _)
Applied(s, context, k) ==
    IF k = 0 THEN s
    ELSE LET before == Applied(s, context, k - 1)
         IN  IF Occurs(before, context[k].key)
             THEN JoinWith(Pieces(before, context[k].key), Shown(context[k].val))
             ELSE before

(* C10: DocDecorate.replace(mapping) sets the text of every cached run to the
   result of applying, for each key in the mapping's order, 'if the key is a
   substring of the current text, replace every occurrence of the key with
   str(value)'; runs containing no key are unchanged and the number and order
   of runs is unchanged; {"foo": "bar"} on "foobar123" gives "barbar123". *)
C10_ReplaceEveryOccurrence ==
    [][ last'.op = "DocDecorate.replace"
        => LET context == last'.args.context
           IN  /\ last'.err = "none"
               /\ dec' = dec
               /\ doc' = [doc EXCEPT !.runText = doc'.runText]
               /\ DOMAIN doc'.runText = DOMAIN doc.runText
               /\ part_get_all_runs(doc') = part_get_all_runs(doc)
               /\ \A r \in DOMAIN doc.runText :
                      doc'.runText[r] =
                          IF r \in Range(dec.runs)
                          THEN Applied(doc.runText[r], context, Len(context))
                          ELSE doc.runText[r]
               /\ \A r \in Range(dec.runs) :
                      (\A k \in 1..Len(context) : ~Occurs(doc.runText[r], context[k].key))
                          => doc'.runText[r] = doc.runText[r]
               /\ \A r \in Range(dec.runs) :
                      (context = <<KV(foo, StrV(bar))>> /\ doc.runText[r] = foobar123)
                          => doc'.runText[r] = <<"b", "a", "r", "b", "a", "r", "1", "2", "3">>
      ]_vars

C10_Witness ==
    /\ last.op = "DocDecorate.replace"
    /\ last.args.context = <<KV(tA, StrV(tB)), KV(tB, StrV(tA))>>
    /\ 4 \in Range(dec.runs)
    /\ doc.runText[4] = <<"a", "a">>
    /\ doc.runText[2] = <<"f", "o", "o", "a", "a", "r", "1", "2", "3">>

----------------------------------------------------------------------------
(* Claims on DocDecorate.delete_run *)

(* The positions of the cached runs whose text is exactly text *)
CachedHits(d, c, text) == {i \in 1..Len(c.runs) : d.runText[c.runs[i]] = text}

FirstOf(S) == CHOOSE i \in S : \A j \in S : i <= j

(* C11: when a cached run has exactly the given text, delete_run removes the
   first such run from the document, whose flattened run list gets one run
   shorter, and from the cached run list, and leaves every other run as it
   was. *)
C11_DeleteRunRemovesFromDocumentAndCache ==
    [][ ( /\ last'.op = "DocDecorate.delete_run"
          /\ CachedHits(doc, dec, last'.args.text) # {} )
        => LET i == FirstOf(CachedHits(doc, dec, last'.args.text))
               r == dec.runs[i]
           IN  /\ last'.err = "none"
               /\ Len(part_get_all_runs(doc')) = Len(part_get_all_runs(doc)) - 1
               /\ r \notin Range(part_get_all_runs(doc'))
               /\ dec'.runs = SubSeq(dec.runs, 1, i - 1)
                                \o SubSeq(dec.runs, i + 1, Len(dec.runs))
               /\ \A q \in Range(part_get_all_runs(doc)) \ {r} :
                      doc'.runText[q] = doc.runText[q]
      ]_vars

(* C12: delete_run with a text that no cached run has changes neither the
   document nor the caches and raises nothing; and a delete_run that finds
   the one cached run of that text takes it out of the cached list, so that no
   cached run has the text afterwards and a second call with the same text
   is such a no-op. *)
C12_DeleteRunAbsentIsNoOp ==
    [][ (last'.op = "DocDecorate.delete_run")
        => LET text == last'.args.text
               hits == CachedHits(doc, dec, text)
           IN  /\ hits = {}
                  => /\ doc' = doc
                     /\ dec' = dec
                     /\ last'.err = "none"
                     /\ last'.ret = NoneRef
               /\ Cardinality(hits) = 1
                  => /\ last'.err = "none"
                     /\ dec.runs[FirstOf(hits)] \notin Range(dec'.runs)
                     /\ Len(dec'.runs) = Len(dec.runs) - 1
                     /\ CachedHits(doc', dec', text) = {}
      ]_vars

(* A second delete_run("b") in a row: cell run 12, the one run of text "b",
   was emptied and dropped from the cache by the first, and "ab" is still
   there for a substring match to find *)
C12_Witness ==
    /\ last.op = "DocDecorate.delete_run"
    /\ last.args.text = tB
    /\ steps = 2
    /\ {4, 12} \subseteq DOMAIN doc.runText
    /\ doc.runText[12] = <<>>
    /\ 12 \notin Range(dec.runs)
    /\ doc.runText[4] = tAB
    /\ 4 \in Range(dec.runs)
    /\ CachedHits(doc, dec, tB) = {}

----------------------------------------------------------------------------
(* Claims on the flattened lists and on pictures *)

(* The paragraphs of a table read off its rows: row by row, cell by cell *)
TableParagraphs(d, t) ==
    Flatten([i \in 1..Len(d.tblRows[t]) |->
                Flatten([j \in 1..Len(d.tblRows[t][i]) |->
                            d.cellParas[d.tblRows[t][i][j]]])])

(* The top-level paragraphs, then the paragraphs of each table in turn *)
AllParagraphs(d) ==
    LET ps == SelectSeq(d.body, LAMBDA b : b.kind = "p")
        ts == SelectSeq(d.body, LAMBDA b : b.kind = "tbl")
    IN  [i \in 1..Len(ps) |-> ps[i].id]
        \o Flatten([k \in 1..Len(ts) |-> TableParagraphs(d, ts[k].id)])

AllRuns(d) ==
    LET ps == AllParagraphs(d)
    IN  Flatten([i \in 1..Len(ps) |-> d.paraRuns[ps[i]]])

(* C13: add_picture_in_run given a text attaches the image to the first run,
   in all_runs order of the document, whose text is exactly the text (a run
   that only contains it does not count) and to no other; when no run has the
   text the call returns without error and the document is unchanged. *)
C13_PictureInFirstExactRun ==
    [][ ( /\ last'.op = "DocContent.add_picture_in_run"
          /\ last'.args.run.str
          /\ Image_open(last'.args.picture) = "none" )
        => LET runs == AllRuns(doc)
               hits == {i \in 1..Len(runs) : doc.runText[runs[i]] = last'.args.run.text}
               pic == [image |-> last'.args.picture, width |-> last'.args.width,
                       height |-> last'.args.height]
           IN  /\ last'.err = "none"
               /\ hits = {} => doc' = doc
               /\ hits # {}
                  => /\ Run_pictures(doc', runs[FirstOf(hits)])
                          = Append(Run_pictures(doc, runs[FirstOf(hits)]), pic)
                     /\ \A q \in DOMAIN doc.runText \ {runs[FirstOf(hits)]} :
                            Run_pictures(doc', q) = Run_pictures(doc, q)
                     /\ [doc' EXCEPT !.runPics = doc.runPics] = doc
      ]_vars

(* add_picture_in_run("logo.png", "a") on the sample document: runs 2
   "foobar123" and 4 "ab" contain the text and come first, run 5 is the first
   whose text is "a", run 14 the second *)
C13_Witness ==
    /\ last.op = "DocContent.add_picture_in_run"
    /\ last.args.run = RunByText(tA)
    /\ last.args.picture = "logo.png"
    /\ {2, 4, 5, 14} \subseteq DOMAIN doc.runText
    /\ doc.runText[2] = foobar123 /\ doc.runText[4] = tAB
    /\ doc.runText[5] = tA /\ doc.runText[14] = tA
    /\ SubSeq(AllRuns(doc), 1, 4) = <<2, 4, 5, 14>>
    /\ Run_pictures(doc, 5) = <<[image |-> "logo.png", width |-> 15, height |-> 0]>>
    /\ Run_pictures(doc, 2) = <<>> /\ Run_pictures(doc, 4) = <<>>
    /\ Run_pictures(doc, 14) = <<>>

(* The position of the first key of the mapping that the text contains, 0 when
   it contains none *)
FirstKey(text, context) ==
    LET ks == {k \in 1..Len(context) : str_contains(text, context[k].key)}
    IN  IF ks = {} THEN 0 ELSE FirstOf(ks)

(* C14: after a successful add_picture(mapping) every cached run whose text
   contained a key has empty text and holds the image of its key (the first
   key of the mapping it contained), and the runs containing no key are
   unchanged; when an image insertion fails, whatever the cause, the call
   fails with the one generic exception. *)
C14_AddPictureByKey ==
    [][ (last'.op = "DocDecorate.add_picture")
        => LET context == last'.args.context
               key(i) == FirstKey(doc.runText[dec.runs[i]], context)
               keyed == {i \in 1..Len(dec.runs) : key(i) # 0}
               fails == {i \in keyed : Image_open(context[key(i)].val) # "none"}
           IN  /\ dec' = dec
               /\ fails # {} => last'.err = "Exception"
               /\ fails = {}
                  => /\ last'.err = "none"
                     /\ \A i \in keyed :
                            /\ doc'.runText[dec.runs[i]] = <<>>
                            /\ Run_pictures(doc', dec.runs[i])
                                 = <<[image |-> context[key(i)].val, width |-> 15,
                                      height |-> 0]>>
                     /\ \A i \in (1..Len(dec.runs)) \ keyed :
                            /\ doc'.runText[dec.runs[i]] = doc.runText[dec.runs[i]]
                            /\ Run_pictures(doc', dec.runs[i])
                                 = Run_pictures(doc, dec.runs[i])
      ]_vars

(* add_picture({"ab": "chart.png", "a": "logo.png"}) on the sample document:
   run 4 "ab" holds the chart, runs 2 and 5 the logo, cell run 12 "b" is as it
   was *)
C14_Witness ==
    /\ last.op = "DocDecorate.add_picture"
    /\ last.err = "none"
    /\ last.args.context = <<KV(tAB, "chart.png"), KV(tA, "logo.png")>>
    /\ {2, 4, 5, 12} \subseteq DOMAIN doc.runText
    /\ {2, 4, 5, 12} \subseteq Range(dec.runs)
    /\ doc.runText[4] = <<>> /\ doc.runText[2] = <<>> /\ doc.runText[12] = tB
    /\ Run_pictures(doc, 4) = <<[image |-> "chart.png", width |-> 15, height |-> 0]>>
    /\ Run_pictures(doc, 2) = <<[image |-> "logo.png", width |-> 15, height |-> 0]>>
    /\ Run_pictures(doc, 5) = <<[image |-> "logo.png", width |-> 15, height |-> 0]>>
    /\ Run_pictures(doc, 12) = <<>>

RECURSIVE SumSeq(_)
SumSeq(s) == IF s = <<>> THEN 0 ELSE Head(s) + SumSeq(Tail(s))

(* The cells of every table, table by table and row by row *)
AllCells(d) ==
    LET ts == SelectSeq(d.body, LAMBDA b : b.kind = "tbl")
    IN  Flatten([k \in 1..Len(ts) |->
                    Flatten([i \in 1..Len(d.tblRows[ts[k].id]) |-> d.tblRows[ts[k].id][i]])])

(* C15: all_paragraphs is the top-level paragraphs in order followed, table by
   table, by each cell's paragraphs in row-major cell order; its length is the
   number of top-level paragraphs plus the sum of the cells' paragraph counts;
   all_runs is the concatenation of those paragraphs' runs. Both the locator's
   and part.py's functions compute it. *)
C15_AllParagraphsOrder ==
    LET cells == AllCells(doc)
        paragraphs == AllParagraphs(doc)
        runs == AllRuns(doc)
    IN  /\ DOCXElement_get_all_paragraphs(doc) = paragraphs
        /\ part_get_all_paragraphs(doc) = paragraphs
        /\ Len(DOCXElement_get_all_paragraphs(doc))
             = Len(part_get_paragraphs(doc))
               + SumSeq([i \in 1..Len(cells) |-> Len(doc.cellParas[cells[i]])])
        /\ DOCXElement_get_all_runs(doc) = runs
        /\ part_get_all_runs(doc) = runs

(* A document where the order matters: a top-level paragraph follows a table
   in the body, a cell holds two paragraphs, and add_picture_in_run has just
   walked the run list *)
C15_Witness ==
    /\ last.op = "DocContent.add_picture_in_run"
    /\ last.args.run.str
    /\ \E i \in 1..Len(doc.body) : \E j \in 1..Len(doc.body) :
           i < j /\ doc.body[i].kind = "tbl" /\ doc.body[j].kind = "p"
    /\ \E c \in Range(AllCells(doc)) : Len(doc.cellParas[c]) = 2
    /\ Len(AllCells(doc)) >= 2
    /\ Len(AllRuns(doc)) >= 5

----------------------------------------------------------------------------
(* Claims on DocStyle and on the elements of a table *)

(* A parameter the caller wrote with a value other than None *)
Given(a, name) == name \in a.passed /\ a[name] # "None"

(* C16: set_run_attribute leaves untouched every attribute whose parameter is
   None or absent; a call that passes only the size (or only the colour, bold
   or italic) leaves the font name and the east-Asian font as they were. *)
C16_AbsentAttributesUntouched ==
    [][ (last'.op = "DocStyle.set_run_attribute")
        => LET a == last'.args.a
               f == Run_font(doc, last'.args.run)
               g == Run_font(doc', last'.args.run)
           IN  /\ (~Given(a, "en_font") /\ ~Given(a, "zh_font"))
                  => (g.name = f.name /\ g.eastAsia = f.eastAsia)
               /\ ("font_size" \notin a.passed \/ a.font_size = 0) => g.size = f.size
               /\ ~Given(a, "color") => g.color = f.color
               /\ ~Given(a, "bold") => g.bold = f.bold
               /\ ~Given(a, "italic") => g.italic = f.italic
      ]_vars

(* The cells of a table element read off the table's rows *)
ElementCells(d, e) ==
    IF e.kind = "cell" THEN <<e.id>>
    ELSE IF e.kind = "row" THEN d.tblRows[e.id][e.idx + 1]
    ELSE IF e.kind = "column"
    THEN [i \in 1..Len(d.tblRows[e.id]) |-> d.tblRows[e.id][i][e.idx + 1]]
    ELSE Flatten([i \in 1..Len(d.tblRows[e.id]) |-> d.tblRows[e.id][i]])

ElementParagraphs(d, e) ==
    LET cells == ElementCells(d, e)
    IN  Flatten([i \in 1..Len(cells) |-> d.cellParas[cells[i]]])

ElementRuns(d, e) ==
    LET ps == ElementParagraphs(d, e)
    IN  Flatten([i \in 1..Len(ps) |-> d.paraRuns[ps[i]]])

(* C17: get_runs_in_table_element succeeds for a table, a row, a column and a
   cell, and returns exactly the runs of the element's cells, cell by cell,
   paragraph by paragraph, run by run. *)
C17_RunsOfEveryTableElement ==
    [][ (last'.op = "DOCXElement.get_runs_in_table_element")
        => /\ last'.err = "none"
           /\ last'.ret.items = ElementRuns(doc, last'.args.element)
      ]_vars

(* C18: set_table_element_content_alignment succeeds for a table, a row, a
   column and a cell, gives the alignment to exactly the paragraphs inside
   the element's cells, and leaves every other paragraph's alignment. *)
C18_AlignmentOfEveryTableElement ==
    [][ (last'.op = "DocStyle.set_table_element_content_alignment")
        => /\ last'.err = "none"
           /\ \A p \in DOMAIN doc.paraRuns :
                  Paragraph_alignment(doc', p)
                   = IF p \in Range(ElementParagraphs(doc, last'.args.element))
                     THEN last'.args.alignment
                     ELSE Paragraph_alignment(doc, p)
      ]_vars

----------------------------------------------------------------------------
(* Claims on failures and on the wrapped document *)

(* The position of the first row of rows_data that does not have n items, 0
   when every row has *)
FirstBadRow(rows_data, n) ==
    LET bad == {k \in 1..Len(rows_data) : Len(rows_data[k]) # n}
    IN  IF bad = {} THEN 0 ELSE FirstOf(bad)

(* C19: no partial rollback: when append_rows(table_index, rows_data) fails at
   its k-th row, the k-1 rows appended before it stay in the table with their
   data, the failure is raised at once and no later row is processed (the
   table ends with the row the failing call had added, left empty). A
   table_index out of range fails at the first row and appends nothing. *)
C19_AppendRowsNoRollback ==
    [][ (last'.op = "DocDecorate.append_rows")
        => LET rows_data == last'.args.rows_data
               at == PyIndex(Len(dec.tables), last'.args.table_index)
           IN  IF at = 0 THEN last'.err = "Exception" /\ doc' = doc
               ELSE LET t == dec.tables[at]
                        n == Len(doc.tblRows[t])
                        k == FirstBadRow(rows_data, Table_column_count(doc, t))
                    IN  k # 0
                        => /\ last'.err = "Exception"
                           /\ Len(doc'.tblRows[t]) = n + k
                           /\ SubSeq(doc'.tblRows[t], 1, n) = doc.tblRows[t]
                           /\ \A m \in 1..(k - 1) :
                                  MapSeq(doc'.tblRows[t][n + m], LAMBDA c : Cell_text(doc', c))
                                   = MapSeq(rows_data[m], LAMBDA v : Shown(v))
                           /\ \A j \in DOMAIN doc'.tblRows[t][n + k] :
                                  Cell_text(doc', doc'.tblRows[t][n + k][j]) = <<>>
                           /\ \A u \in DOMAIN doc.tblRows \ {t} :
                                  doc'.tblRows[u] = doc.tblRows[u]
      ]_vars

(* append_rows(0, [["a", "b"], ["a"], ["b", "a"]]) on the sample document: the
   table has its row, the row "a", "b", and the empty row of the failed call *)
C19_Witness ==
    /\ last.op = "DocDecorate.append_rows"
    /\ last.err = "Exception"
    /\ last.args.table_index = 0
    /\ Len(last.args.rows_data) = 3
    /\ 6 \in DOMAIN doc.tblRows
    /\ Len(doc.tblRows[6]) = 3
    /\ MapSeq(doc.tblRows[6][2], LAMBDA c : Cell_text(doc, c)) = <<tA, tB>>
    /\ MapSeq(doc.tblRows[6][3], LAMBDA c : Cell_text(doc, c)) = <<<<>>, <<>>>>

(* C20: each facade built from an existing Document object wraps that very
   object: what is changed through the facade is seen in the document that
   was passed in, and what the facade reads is that document. *)
C20_FacadesWrapThePassedDocument ==
    [][ /\ (last'.op = "DocContent.add_paragraph" /\ last'.err = "none")
           => /\ Document_paragraphs(doc') = Append(Document_paragraphs(doc), last'.ret.id)
              /\ Paragraph_text(doc', last'.ret.id) = last'.args.text
        /\ (last'.op = "DocContent.insert_paragraph_before" /\ last'.err = "none")
           => Len(part_get_all_paragraphs(doc')) = Len(part_get_all_paragraphs(doc)) + 1
        /\ (last'.op = "DocDecorate.add_paragraph" /\ ~Truthy(last'.args.flag))
           => Document_paragraphs(doc') = Append(Document_paragraphs(doc), last'.ret.id)
        /\ (last'.op = "DocDecorate.delete_run"
              /\ CachedHits(doc, dec, last'.args.text) # {})
           => doc'.runText[dec.runs[FirstOf(CachedHits(doc, dec, last'.args.text))]] = <<>>
        /\ (last'.op = "DOCXElement.get_paragraphs_of_document")
           => loc'.paragraphs = Cached(Document_paragraphs(doc))
        /\ (last'.op = "DocStyle.set_run_attribute" /\ last'.err = "none"
              /\ "font_size" \in last'.args.a.passed)
           => Run_font(doc', last'.args.run).size = Pt(last'.args.a.font_size)
      ]_vars

----------------------------------------------------------------------------
(* Claims on positions, failed rows, and look-ups by index *)

(* C21: an integer position i given to DocContent.insert_paragraph_before or
   DocContent.append_text_to_paragraph is resolved against the top-level
   paragraphs of the document as it is when the call is made, whatever calls
   came before: the new paragraph lands right before the paragraph now at
   index i, the new run ends the paragraph now at index i, and an index
   outside 0..N-1 of the present paragraph list is refused. *)
C21_PositionResolvedAtCallTime ==
    [][ ( /\ last'.op \in {"DocContent.insert_paragraph_before",
                            "DocContent.append_text_to_paragraph"}
          /\ last'.args.position.kind = "int" )
        => LET i == last'.args.position.idx
               ps == Document_paragraphs(doc)
               new == last'.ret.id
           IN  IF 0 <= i /\ i < Len(ps)
               THEN /\ last'.err = "none"
                    /\ last'.op = "DocContent.insert_paragraph_before"
                       => /\ Document_paragraphs(doc') = InsertAt(ps, i + 1, new)
                          /\ new \notin Range(ps)
                    /\ last'.op = "DocContent.append_text_to_paragraph"
                       => /\ Document_paragraphs(doc') = ps
                          /\ doc'.paraRuns[ps[i + 1]] = Append(doc.paraRuns[ps[i + 1]], new)
                          /\ doc'.runText[new] = last'.args.text
                          /\ \A q \in DOMAIN doc.paraRuns \ {ps[i + 1]} :
                                 doc'.paraRuns[q] = doc.paraRuns[q]
               ELSE /\ last'.err = "AssertionError"
                    /\ doc' = doc
      ]_vars

(* append_text_to_paragraph("b", 0) as the third call, after the paragraph
   list was read by the long-lived locator and a paragraph was then put in
   front: the paragraph now first is one made after the start (the sample
   document's identities end at 14) and it is the one that got the run *)
C21_Witness ==
    /\ last.op = "DocContent.append_text_to_paragraph"
    /\ last.args.position = IntRef(0)
    /\ last.err = "none"
    /\ steps = 3
    /\ loc.paragraphs.set
    /\ Len(loc.paragraphs.list) = 3
    /\ Len(Document_paragraphs(doc)) = 4
    /\ Document_paragraphs(doc)[1] > 14
    /\ Document_paragraphs(doc)[2] = loc.paragraphs.list[1]
    /\ doc.paraRuns[Document_paragraphs(doc)[1]][Len(doc.paraRuns[Document_paragraphs(doc)[1]])]
         = last.ret.id

(* C22: append_row(table_index, row_data) with len(row_data) different from
   the table's column count fails with the generic exception only after the
   row was added: the table has one more row, whose cells hold no data, the
   rest of the document is as it was, and the cached lists of the facade are
   those of before the call. *)
C22_FailedAppendRowLeavesEmptyRow ==
    [][ ( /\ last'.op = "DocDecorate.append_row"
          /\ PyIndex(Len(dec.tables), last'.args.table_index) # 0
          /\ Len(last'.args.row_data)
               # Table_column_count(doc, dec.tables[PyIndex(Len(dec.tables),
                                                           last'.args.table_index)]) )
        => LET t == dec.tables[PyIndex(Len(dec.tables), last'.args.table_index)]
               n == Len(doc.tblRows[t])
           IN  /\ last'.err = "Exception"
               /\ last'.ret = NoneRef
               /\ Len(doc'.tblRows[t]) = n + 1
               /\ SubSeq(doc'.tblRows[t], 1, n) = doc.tblRows[t]
               /\ Len(doc'.tblRows[t][n + 1]) = Table_column_count(doc, t)
               /\ \A j \in DOMAIN doc'.tblRows[t][n + 1] :
                      LET cell == doc'.tblRows[t][n + 1][j]
                      IN  /\ cell \notin DOMAIN doc.cellParas
                          /\ Cell_text(doc', cell) = <<>>
                          /\ \A q \in Range(doc'.cellParas[cell]) : doc'.paraRuns[q] = <<>>
               /\ \A u \in DOMAIN doc.tblRows \ {t} : doc'.tblRows[u] = doc.tblRows[u]
               /\ doc'.body = doc.body
               /\ doc'.runText = doc.runText
               /\ dec' = dec
      ]_vars

(* append_row(0, ["a"]) on the sample document, whose table has two columns:
   the call failed and the table has a second row of two empty cells *)
C22_Witness ==
    /\ last.op = "DocDecorate.append_row"
    /\ last.args.table_index = 0
    /\ last.args.row_data = <<StrV(tA)>>
    /\ last.err = "Exception"
    /\ steps = 1
    /\ 6 \in DOMAIN doc.tblRows
    /\ Len(doc.tblRows[6]) = 2
    /\ MapSeq(doc.tblRows[6][2], LAMBDA c : Cell_text(doc, c)) = <<<<>>, <<>>>>
    /\ dec.tables = <<6>>

(* C23: get_table with an integer index returns the document's table at that
   index for every 0 <= index < number of tables and fails as out of range
   for every other integer, on a new locator and after earlier locator calls;
   given a table object it returns that object. *)
C23_GetTableByIndex ==
    [][ (last'.op = "DOCXElement.get_table")
        => LET table == last'.args.table
               ts == Document_tables(doc)
           IN  IF table.kind # "int"
               THEN last'.err = "none" /\ last'.ret = table
               ELSE IF 0 <= table.idx /\ table.idx < Len(ts)
               THEN last'.err = "none" /\ last'.ret = Ref("tbl", ts[table.idx + 1])
               ELSE last'.err = "AssertionError" /\ last'.ret = NoneRef
      ]_vars

(* C24: part.get_row_in_table(table, i) returns row i for every 0 <= i < row
   count, part.get_column_in_table(table, j) returns column j for every
   0 <= j < column count, index 0 included, and both fail as out of range
   for every other index. *)
C24_RowAndColumnByIndex ==
    [][ /\ (last'.op = "part.get_row_in_table")
           => LET t == last'.args.table
                  i == last'.args.row_index
              IN  IF 0 <= i /\ i < Len(doc.tblRows[t])
                  THEN last'.err = "none" /\ last'.ret = RowRef(t, i)
                  ELSE last'.err = "AssertionError" /\ last'.ret = NoneRef
        /\ (last'.op = "part.get_column_in_table")
           => LET t == last'.args.table
                  j == last'.args.column_index
              IN  IF 0 <= j /\ j < doc.tblGrid[t]
                  THEN last'.err = "none" /\ last'.ret = ColumnRef(t, j)
                  ELSE last'.err = "AssertionError" /\ last'.ret = NoneRef
      ]_vars

(* C25: DocDecorate.add_paragraph(content, flag) with a non-empty flag inserts
   exactly one new paragraph right before the first cached top-level paragraph
   whose whole text is the flag and returns it; when no cached paragraph has
   that text, document and cache are unchanged and nothing is returned; with
   no flag the new paragraph is appended at the end of the document; the
   number of paragraphs grows by at most one per call. *)
C25_AddParagraphAtFlag ==
    [][ (last'.op = "DocDecorate.add_paragraph")
        => LET flag == last'.args.flag
               content == last'.args.content
               new == [kind |-> "p", id |-> last'.ret.id]
               hits == {i \in 1..Len(dec.paragraphs) :
                           Paragraph_text(doc, dec.paragraphs[i]) = flag.s}
           IN  /\ last'.err = "none"
               /\ Len(Document_paragraphs(doc')) <= Len(Document_paragraphs(doc)) + 1
               /\ (Truthy(flag) /\ hits = {})
                  => /\ doc' = doc
                     /\ dec' = dec
                     /\ last'.ret = NoneRef
               /\ (Truthy(flag) /\ hits # {})
                  => LET at == [kind |-> "p", id |-> dec.paragraphs[FirstOf(hits)]]
                     IN  /\ last'.ret.kind = "p"
                         /\ new.id \notin DOMAIN doc.paraRuns
                         /\ doc'.body = InsertAt(doc.body, IndexOf(doc.body, at), new)
                         /\ Paragraph_text(doc', new.id)
                              = IF Truthy(content) THEN content.s ELSE <<>>
               /\ ~Truthy(flag)
                  => /\ last'.ret.kind = "p"
                     /\ new.id \notin DOMAIN doc.paraRuns
                     /\ doc'.body = Append(doc.body, new)
                     /\ Paragraph_text(doc', new.id)
                          = IF Truthy(content) THEN content.s ELSE <<>>
      ]_vars

(* add_paragraph("a", flag "a") twice on the sample document: three top-level
   paragraphs read "a" and the one returned by the second call is the first of
   them, right before the one the first call made *)
C25_Witness ==
    /\ last.op = "DocDecorate.add_paragraph"
    /\ last.args.flag = Some(tA)
    /\ last.ret.kind = "p"
    /\ steps = 2
    /\ LET ps == Document_paragraphs(doc)
           as == {i \in 1..Len(ps) : Paragraph_text(doc, ps[i]) = tA}
       IN  /\ Cardinality(as) = 3
           /\ ps[FirstOf(as)] = last.ret.id
           /\ FirstOf(as) + 2 \in as
           /\ ps[FirstOf(as) + 2] = 13

====
